---- MODULE Spec2Model ----
(***************************************************************************)
(* SmartMedia-CMS: the upload-to-analysis pipeline.                        *)
(*                                                                         *)
(* Durable state: the Firestore documents users/{uid}/files/{fileId} and   *)
(* users/{uid}.  Server: the onFileUpload and manageQuota triggers, the    *)
(* cleanupStuckProcessing schedule and analyzeMediaCallable                *)
(* (functions/src/handlers.ts).  Client: the storage service               *)
(* (services/storageService) and the App component's upload handlers.      *)
(*                                                                         *)
(* Time is counted in whole minutes.  A document's updatedAt is kept as    *)
(* the number of minutes since it was written (saturating one past the     *)
(* staleness threshold), -1 while the field is absent.                     *)
(***************************************************************************)
EXTENDS Integers, FiniteSets, Sequences, TLC

\* ---------------------------------------------------------------- bounds
MaxFiles == 2            \* file ids (crypto.randomUUID() values) in play
MaxInvocations == 2      \* analysis invocations in flight at once
MaxEvents == 2           \* undelivered onFileUpload events
MaxRedeliveries == 1     \* extra deliveries of one event (at-least-once)
MaxSessions == 2         \* concurrent sign-in sessions (tabs)
MaxPipelineFiles == 1    \* files taken through the whole pipeline at once
MaxChunks == 2           \* state_changed events of one transfer
SmallFile == 41943040    \* file.size of a 40 MB file
LargeFile == 73400320    \* file.size of a 70 MB file

\* ------------------------------------------------------ program constants
STALE_MINUTES == 5               \* cutoff = Date.now() - 5 * 60 * 1000
TRIGGER_TIMEOUT_MINUTES == 5     \* onFileUpload timeoutSeconds: 300
CALLABLE_TIMEOUT_MINUTES == 1    \* onCall without timeoutSeconds: 60 s
DEFAULT_QUOTA_BYTES == 104857600 \* quotaBytes: 104857600 (100 MB)

FileIds == 1..MaxFiles
Sessions == 1..MaxSessions
Slots == 1..MaxInvocations
PipelineFiles == 1..MaxPipelineFiles
FileSizes == {SmallFile, LargeFile}
AgeCap == STALE_MINUTES + 1
NoTime == -1

VARIABLES
    files,        \* users/{uid}/files/{fileId}: the document or NoDoc
    profile,      \* users/{uid}: the profile document or NoProfile
    events,       \* onDocumentWritten events not yet delivered to onFileUpload
    qevents,      \* onDocumentWritten events not yet delivered to manageQuota
    redelivered,  \* how many duplicate deliveries the platform has made
    inv,          \* analysis invocations in flight (awaiting analyzeMediaFlow)
    sweep,        \* cleanupStuckProcessing between its query and its commit
    upload,       \* client: the upload attempt per file id
    ensure,       \* client: ensureUserProfile calls between getDoc and setDoc
    userProfile,  \* client: the profile snapshot AuthContext holds (or none)
    aiCalls,      \* history: analyzeMediaFlow calls made by onFileUpload per file
    reply         \* the last response of analyzeMediaCallable per file id

vars == <<files, profile, events, qevents, redelivered, inv, sweep, upload,
          ensure, userProfile, aiCalls, reply>>

\* ------------------------------------------------------------- documents
NoDoc == [status |-> "absent"]

\* The error field: absent, the structured {code, message, at} the server
\* writes, or the plain string failUpload writes.  A message is a sequence
\* of the pieces it is concatenated from.
NoError == [kind |-> "none"]
ErrorObject(code, message) ==
    [kind |-> "object", code |-> code, message |-> message, at |-> "iso"]
ErrorString(text) == [kind |-> "string", text |-> text]
ErrorCode(doc) == IF doc.error.kind = "object" THEN doc.error.code ELSE "none"
Contains(message, piece) == \E k \in 1..Len(message) : message[k] = piece
NoProfile == [exists |-> FALSE, quotaBytes |-> 0, usedBytes |-> 0]

Exists(f) == files[f] # NoDoc

\* placeholderData of initializeUpload
Placeholder(size) ==
    [status |-> "uploading", downloadURL |-> "null", sizeBytes |-> size,
     analysis |-> "absent", analyzedAt |-> FALSE, error |-> NoError,
     updatedAt |-> NoTime, progress |-> 0, url |-> "absent", people |-> {},
     edited |-> FALSE]

\* The profile ensureUserProfile creates
NewProfile ==
    [exists |-> TRUE, quotaBytes |-> DEFAULT_QUOTA_BYTES, usedBytes |-> 0]

\* The after-snapshot an onFileUpload event carries
Snapshot(f, doc) ==
    [file |-> f, status |-> doc.status,
     downloadURL |-> IF doc = NoDoc THEN "null" ELSE doc.downloadURL]

\* The (before, after) sizes a manageQuota event carries; -1 = no document
SizeOf(doc) == IF doc = NoDoc THEN -1 ELSE doc.sizeBytes
QuotaEvent(f, before, after) ==
    [file |-> f, before |-> SizeOf(before), after |-> SizeOf(after)]

Idle == [fn |-> "idle"]
NoSweep == [active |-> FALSE, matched |-> {}]

\* One upload attempt of the session and the App's ephemeral state for it:
\* task = activeUploads has the id, progress = uploadProgress[id] is defined,
\* preview = localPreviews[id] is set, timer = the stall timer is armed,
\* toast = the last toast raised for it.
NoUpload ==
    [st |-> "idle", size |-> 0, gen |-> FALSE, task |-> FALSE,
     progress |-> FALSE, preview |-> FALSE, timer |-> FALSE, toast |-> "none",
     mime |-> "unknown", sent |-> 0]

\* setLocalPreviews, setUploadProgress, activeUploads.set, kickWatchdog
Tracked(up) ==
    [up EXCEPT !.task = TRUE, !.progress = TRUE, !.preview = TRUE,
               !.timer = TRUE]

\* Callbacks that leave the ephemeral entries in place
StillTracked(up) == up

\* activeUploads.delete, the uploadProgress entry dropped, cleanupLocalPreview
Untracked(up) ==
    [up EXCEPT !.task = FALSE, !.progress = FALSE, !.preview = FALSE]

\* clearWatchdog
Disarmed(up) == [up EXCEPT !.timer = FALSE]

\* addToast(message, "error")
FailureToasts == {"quota", "init_failed", "upload_failed", "timed_out"}

\* ------------------------------------------------------------ Firestore
\* A write of document f on top of the undelivered events evs: the new
\* contents, and one event for each of the two onDocumentWritten triggers.
\* The backlog of onFileUpload events is bounded.
CanEmit(evs, new) == Cardinality(evs \cup new) <= MaxEvents

WriteFrom(evs, f, doc) ==
    /\ CanEmit(evs, {Snapshot(f, doc)})
    /\ files' = [files EXCEPT ![f] = doc]
    /\ events' = evs \cup {Snapshot(f, doc)}
    /\ qevents' = qevents \cup {QuotaEvent(f, files[f], doc)}

\* updateDoc / ref.update: merges the fields into an existing document and
\* is rejected (NOT_FOUND, nothing written) when the document is gone.
UpdateFrom(evs, f, doc) ==
    IF Exists(f)
    THEN WriteFrom(evs, f, doc)
    ELSE /\ events' = evs
         /\ UNCHANGED <<files, qevents>>

Update(f, doc) == UpdateFrom(events, f, doc)

\* ------------------------------------------------- client: storageService
\* A checkQuota that never looks at the remaining space
CheckQuotaIgnoringUsage(p, fileSize, readFails) == ~readFails

\* checkQuota: remaining >= fileSize; true when there is no profile
\* (fail open), false when the read fails (fail safe).
CheckQuota(p, fileSize, readFails) ==
    IF readFails THEN FALSE
    ELSE IF p.exists THEN p.quotaBytes - p.usedBytes >= fileSize
    ELSE TRUE

\* handleUpload's own check against the cached profile: blocks the upload
\* when file.size > remaining; skipped while no profile is loaded.
PreCheckBlocks(up, fileSize) ==
    up.exists /\ fileSize > up.quotaBytes - up.usedBytes

\* A finalize that writes the status alone
FinalizedStatusOnly(doc) ==
    [doc EXCEPT !.status = "pending", !.updatedAt = 0]

\* finalizeUpload: status 'pending' with the download URL
Finalized(doc) ==
    [doc EXCEPT !.status = "pending", !.downloadURL = "url", !.updatedAt = 0]

\* failUpload: status 'error' with the message as a plain string
FailedUpload(doc, msg) ==
    [doc EXCEPT !.status = "error", !.error = ErrorString(msg),
                !.updatedAt = 0]

\* An attempt after the quota checks: handleUpload's check on the loaded
\* profile and its toasts, then checkQuota inside initializeUpload
Attempt(size, gen, readFails) ==
    LET blocked == ~gen /\ PreCheckBlocks(userProfile, size)
        ok == ~blocked /\ CheckQuota(profile, size, readFails)
    IN [NoUpload EXCEPT
          !.st = IF ok THEN "checked" ELSE "rejected",
          !.size = size, !.gen = gen,
          !.toast = IF gen THEN "none"
                    ELSE IF blocked THEN "quota"
                    ELSE IF ok THEN "uploading"
                    ELSE "init_failed"]

\* handleUpload up to initializeUpload's quota check (gen = FALSE), or
\* saveGeneratedItem up to the same check (gen = TRUE: an item that carries
\* an analysis).  A rejected attempt throws before fileId is drawn.
InitiateUpload(f, size, gen, readFails) ==
    /\ upload[f].st = "idle"
    /\ \A g \in FileIds : g < f => upload[g].st # "idle"
    /\ upload' = [upload EXCEPT ![f] = Attempt(size, gen, readFails)]
    /\ UNCHANGED <<files, profile, events, qevents, redelivered, inv, sweep,
                   ensure, userProfile, aiCalls, reply>>

\* file.type of the files a user can pick (the accept attribute of the
\* input is a hint the file dialog lets the user override)
MimeTypes == {"image/png", "video/mp4", "audio/mpeg", "application/pdf"}

\* file.type.startsWith(prefix + "/")
StartsWith(mime, prefix) ==
    \/ prefix = "image" /\ mime = "image/png"
    \/ prefix = "video" /\ mime = "video/mp4"
    \/ prefix = "audio" /\ mime = "audio/mpeg"

\* The files Uploader.handleFileChange passes on to onUpload
Supported(mime) ==
    StartsWith(mime, "video") \/ StartsWith(mime, "audio")
       \/ StartsWith(mime, "image")

\* Uploader.handleFileChange for one picked file: an unsupported type is
\* skipped with a console warning, any other goes to handleUpload.
HandleFileChange(f, mime, size) ==
    /\ upload[f].st = "idle"
    /\ \A g \in FileIds : g < f => upload[g].st # "idle"
    /\ upload' = IF Supported(mime)
                 THEN [upload EXCEPT ![f] =
                         [Attempt(size, FALSE, FALSE) EXCEPT !.mime = mime]]
                 ELSE upload
    /\ UNCHANGED <<files, profile, events, qevents, redelivered, inv, sweep,
                   ensure, userProfile, aiCalls, reply>>

\* The mobile upload input of src/App.tsx for one picked file: every file
\* goes to handleUpload (typed IMAGE unless video or audio), which has no
\* check of its own before initializeUpload's checkQuota.
MobileInputChange(f, mime, size) ==
    /\ upload[f].st = "idle"
    /\ \A g \in FileIds : g < f => upload[g].st # "idle"
    /\ LET ok == CheckQuota(profile, size, FALSE)
       IN upload' = [upload EXCEPT ![f] =
                       [NoUpload EXCEPT
                          !.st = IF ok THEN "checked" ELSE "rejected",
                          !.size = size, !.mime = mime,
                          !.toast = IF ok THEN "uploading"
                                    ELSE "init_failed"]]
    /\ UNCHANGED <<files, profile, events, qevents, redelivered, inv, sweep,
                   ensure, userProfile, aiCalls, reply>>

\* initializeUpload after the check: setDoc(placeholderData), then
\* uploadBytesResumable starts the transfer.
CreatePlaceholder(f) ==
    /\ upload[f].st = "checked"
    /\ WriteFrom(events, f, Placeholder(upload[f].size))
    /\ upload' = [upload EXCEPT ![f] =
                    [(IF upload[f].gen THEN @ ELSE Tracked(@))
                       EXCEPT !.st = "running"]]
    /\ UNCHANGED <<profile, redelivered, inv, sweep, ensure, userProfile,
                   aiCalls, reply>>

\* The transfer completes: the success callback disarms the stall timer,
\* drops the ephemeral entries and awaits getDownloadURL.
TransferSuccess(f) ==
    /\ upload[f].st = "running"
    /\ upload' = [upload EXCEPT ![f] =
                    [Disarmed(Untracked(@)) EXCEPT
                       !.st = "urlfetch",
                       !.toast = IF upload[f].gen THEN @ ELSE "complete"]]
    /\ UNCHANGED <<files, profile, events, qevents, redelivered, inv, sweep,
                   ensure, userProfile, aiCalls, reply>>

\* The success callback after getDownloadURL: finalizeUpload.  In
\* saveGeneratedItem the analysis write follows when finalizeUpload resolved.
FinalizeUpload(f) ==
    /\ upload[f].st = "urlfetch"
    /\ Update(f, Finalized(files[f]))
    /\ upload' = [upload EXCEPT ![f].st =
                    IF upload[f].gen /\ Exists(f) THEN "analysis" ELSE "closed"]
    /\ UNCHANGED <<profile, redelivered, inv, sweep, ensure, userProfile,
                   aiCalls, reply>>

\* saveGeneratedItem: updateMediaMetadata(userId, fileId, {analysis})
SaveGeneratedAnalysis(f) ==
    /\ upload[f].st = "analysis"
    /\ Update(f, [files[f] EXCEPT !.analysis = "client"])
    /\ upload' = [upload EXCEPT ![f].st = "closed"]
    /\ UNCHANGED <<profile, redelivered, inv, sweep, ensure, userProfile,
                   aiCalls, reply>>

\* The transfer fails: the error callback calls failUpload.
TransferError(f) ==
    /\ upload[f].st = "running"
    /\ Update(f, FailedUpload(files[f], "transfer_error"))
    /\ upload' = [upload EXCEPT ![f] =
                    [Disarmed(Untracked(@)) EXCEPT
                       !.st = "closed",
                       !.toast = IF upload[f].gen THEN @
                                 ELSE "upload_failed"]]
    /\ UNCHANGED <<profile, redelivered, inv, sweep, ensure, userProfile,
                   aiCalls, reply>>

\* A state_changed event of the transfer: the progress entry is set and
\* kickWatchdog clears the armed timer and arms a new one.
TransferProgress(f) ==
    /\ upload[f].st = "running"
    /\ ~upload[f].gen
    /\ upload[f].sent < MaxChunks
    /\ upload' = [upload EXCEPT ![f] =
                    [@ EXCEPT !.sent = @ + 1, !.progress = TRUE,
                              !.timer = TRUE]]
    /\ UNCHANGED <<files, profile, events, qevents, redelivered, inv, sweep,
                   ensure, userProfile, aiCalls, reply>>

\* The user that the handleUploadTimeout called by the timer sees.
\* kickWatchdog is memoised with no dependencies, so its timer calls the
\* handleUploadTimeout of the render that created it: the first one, made
\* while AuthProvider's user is still null.
TimeoutUser == FALSE

\* handleUploadTimeout: the stall timer fires (no state_changed event since
\* it was armed), cancels the task and drops the ephemeral entries; with a
\* user it also calls failUpload and raises a toast.  The cancelled task's
\* error callback is still to come.
StallTimeout(f) ==
    /\ upload[f].st = "running"
    /\ ~upload[f].gen
    /\ upload[f].timer
    /\ IF TimeoutUser
       THEN Update(f, FailedUpload(files[f], "stalled"))
       ELSE UNCHANGED <<files, events, qevents>>
    /\ upload' = [upload EXCEPT ![f] =
                    [Disarmed(Untracked(@)) EXCEPT
                       !.st = "canceled",
                       !.toast = IF TimeoutUser THEN "timed_out" ELSE @]]
    /\ UNCHANGED <<profile, redelivered, inv, sweep, ensure, userProfile,
                   aiCalls, reply>>

\* activeUploads.get(item.id) of handleCancelUpload, with the test left out
AssumesActiveTask(up) == TRUE

\* activeUploads.get(item.id) of handleCancelUpload
HasActiveTask(up) == up.task

\* handleCancelUpload on a library item: task.cancel() and a toast when the
\* id has an active task, nothing otherwise.  cancel() on a task that is
\* already being cancelled or has ended does not change it.
CancelUpload(f) ==
    /\ Exists(f)
    /\ upload' = [upload EXCEPT ![f] =
                    IF HasActiveTask(@)
                    THEN [@ EXCEPT !.st = IF @ = "running" THEN "canceled"
                                          ELSE @,
                                   !.toast = "cancelled"]
                    ELSE @]
    /\ UNCHANGED <<files, profile, events, qevents, redelivered, inv, sweep,
                   ensure, userProfile, aiCalls, reply>>

\* The error callback of a cancelled task (storage/canceled): failUpload
CanceledCallback(f) ==
    /\ upload[f].st = "canceled"
    /\ Update(f, FailedUpload(files[f], "cancelled_by_user"))
    /\ upload' = [upload EXCEPT ![f] =
                    [Disarmed(Untracked(@)) EXCEPT !.st = "closed"]]
    /\ UNCHANGED <<profile, redelivered, inv, sweep, ensure, userProfile,
                   aiCalls, reply>>

\* deleteMediaItem: deleteObject, then deleteDoc
DeleteItem(f) ==
    /\ Exists(f)
    /\ WriteFrom(events, f, NoDoc)
    /\ UNCHANGED <<profile, redelivered, inv, sweep, upload, ensure,
                   userProfile, aiCalls, reply>>

\* The status mapSnapshotToMediaItems shows for a record
ClientStatus(doc) ==
    IF doc.status = "ready" THEN "complete"
    ELSE IF doc.status = "failed" THEN "error"
    ELSE doc.status

\* The library item mapSnapshotToMediaItems builds for record f; it is built
\* from the document's fields alone, so it carries no file.  url is
\* downloadURL or '', progress 100 for a complete item and the document's
\* otherwise, error the document's error (undefined when it has none).
MediaItem(f) ==
    [id |-> f, status |-> ClientStatus(files[f]), file |-> "absent",
     url |-> IF files[f].downloadURL = "null" THEN "" ELSE files[f].downloadURL,
     progress |-> IF ClientStatus(files[f]) = "complete" THEN 100
                  ELSE files[f].progress,
     error |-> files[f].error,
     analysis |-> files[f].analysis,
     people |-> files[f].people,
     edited |-> files[f].edited]

\* uploadProgress[id] of a running transfer, in percent
LocalProgress == 50

\* mergedLibrary: an item whose id has an uploadProgress entry is shown
\* with that progress, status 'uploading' and the local preview URL.
MergedItem(f) ==
    IF upload[f].progress
    THEN [MediaItem(f) EXCEPT
            !.progress = LocalProgress,
            !.status = "uploading",
            !.url = IF upload[f].preview THEN "blob:preview" ELSE @]
    ELSE MediaItem(f)

\* What updateLibraryItem's updateDoc makes of the document when it is handed
\* item: every field of the item is written (file is dropped), so status,
\* progress and url are stored as the item has them.
WrittenBack(doc, item) ==
    [doc EXCEPT !.status = item.status, !.progress = item.progress,
                !.url = item.url, !.error = item.error,
                !.people = item.people, !.edited = item.edited]

\* updateDoc rejects data that holds an undefined field value; the item's
\* error is undefined when the document has no error field.
Writable(item) == item.error # NoError

\* The documents after updateLibraryItem was called with items[f] for each
\* record f the function items is defined on
Edited(items) ==
    [f \in FileIds |->
       IF f \in DOMAIN items /\ Exists(f) /\ Writable(items[f])
       THEN WrittenBack(files[f], items[f])
       ELSE files[f]]

\* The writes of one handler: the documents become new, with the events of
\* every document that changed
Commit(new) ==
    LET changed == {f \in FileIds : new[f] # files[f]}
        evs == {Snapshot(f, new[f]) : f \in changed}
    IN /\ CanEmit(events, evs)
       /\ files' = new
       /\ events' = events \cup evs
       /\ qevents' = qevents \cup
                        {QuotaEvent(f, files[f], new[f]) : f \in changed}

\* The names a user can give a person
Names == {"A", "B"}

\* The items handleRenamePerson hands to updateLibraryItem: those of
\* mergedLibrary whose peopleDetected includes oldName
Listing(oldName) ==
    {f \in FileIds :
       /\ Exists(f)
       /\ MergedItem(f).analysis # "absent"
       /\ oldName \in MergedItem(f).people}

\* The library after handleRenamePerson's updates: each listed item written
\* back with the name replaced and isUserEdited set
RenamedLibrary(oldName, newName) ==
    Edited([f \in Listing(oldName) |->
              [MergedItem(f) EXCEPT
                 !.people = {IF q = oldName THEN newName ELSE q : q \in @},
                 !.edited = TRUE]])

\* handleRenamePerson
RenamePerson(oldName, newName) ==
    /\ oldName # newName
    /\ Listing(oldName) # {}
    /\ Commit(RenamedLibrary(oldName, newName))
    /\ UNCHANGED <<profile, redelivered, inv, sweep, upload, ensure,
                   userProfile, aiCalls, reply>>

\* handleConfirmMatch: an item with an analysis that does not list the
\* person yet goes to updateLibraryItem with the person added.
ConfirmMatch(f, personName) ==
    /\ Exists(f)
    /\ MergedItem(f).analysis # "absent"
    /\ personName \notin MergedItem(f).people
    /\ Commit(Edited([g \in {f} |->
                        [MergedItem(g) EXCEPT !.people = @ \cup {personName},
                                              !.edited = TRUE]]))
    /\ UNCHANGED <<profile, redelivered, inv, sweep, upload, ensure,
                   userProfile, aiCalls, reply>>

\* handleNSFWReview: an item with an analysis goes to updateLibraryItem with
\* the reviewed safety level and isUserEdited set.
NSFWReview(f) ==
    /\ Exists(f)
    /\ MergedItem(f).analysis # "absent"
    /\ Commit(Edited([g \in {f} |->
                        [MergedItem(g) EXCEPT !.edited = TRUE]]))
    /\ UNCHANGED <<profile, redelivered, inv, sweep, upload, ensure,
                   userProfile, aiCalls, reply>>

\* Inspector's handleAddTag / handleRemoveTag through handleUpdateItem:
\* updateDoc writes the analysis alone, with the tags edited and
\* isUserEdited set.
EditTags(f) ==
    /\ Exists(f)
    /\ MergedItem(f).analysis # "absent"
    /\ Commit([files EXCEPT ![f].edited = TRUE])
    /\ UNCHANGED <<profile, redelivered, inv, sweep, upload, ensure,
                   userProfile, aiCalls, reply>>

\* The session still holds the File it started the upload of f with
FileInMemory(f) == upload[f].st # "idle"

\* handleRetryUpload on an item shown as failed: with item.file,
\* deleteMediaItem and then handleUpload(item.file) as a new attempt (the
\* next unused id); without it, deleteMediaItem and a toast.
RetryUpload(f) ==
    /\ Exists(f)
    /\ MediaItem(f).status = "error"
    /\ WriteFrom(events, f, NoDoc)
    /\ IF MediaItem(f).file # "absent"
       THEN LET unused == {g \in FileIds : upload[g].st = "idle"}
            IN IF unused = {} THEN UNCHANGED upload
               ELSE LET g == CHOOSE g \in unused : \A h \in unused : g <= h
                    IN upload' = [upload EXCEPT ![g] =
                                    Attempt(files[f].sizeBytes, FALSE, FALSE)]
       ELSE upload' = [upload EXCEPT ![f].toast = "removed"]
    /\ UNCHANGED <<profile, redelivered, inv, sweep, ensure, userProfile,
                   aiCalls, reply>>

\* --------------------------------------------- server: onFileUpload
FreeSlots == {i \in Slots : inv[i] = Idle}
\* Invocations take the lowest free slot.
NextSlot == CHOOSE i \in FreeSlots : \A j \in FreeSlots : i <= j

\* A handler that goes to the model without marking the record
Unmarked(doc) == doc

\* The set-processing write: status processing, updatedAt
Processing(doc) == [doc EXCEPT !.status = "processing", !.updatedAt = 0]

\* A success write that leaves analyzedAt out
ReadyWithoutAnalyzedAt(doc) ==
    [doc EXCEPT !.status = "ready", !.analysis = "ai", !.updatedAt = 0]

\* analysis.extractedEntities.people of the model's output
AIPeople == {"A"}

\* The success write: status ready, analyzedAt, and a whole new analysis
\* object (peopleDetected from the model, no isUserEdited)
Ready(doc) ==
    [doc EXCEPT !.status = "ready", !.analysis = "ai", !.analyzedAt = TRUE,
                !.updatedAt = 0, !.people = AIPeople, !.edited = FALSE]

\* A failure write: status failed with error {code, message, at}
Failed(doc, code, message) ==
    [doc EXCEPT !.status = "failed", !.error = ErrorObject(code, message),
                !.updatedAt = 0]

\* What analyzeMediaFlow's try block can throw: the model's error, or the
\* flow's own error on a missing output
AIFailures == {"rate limited", "Gemini returned null output."}

\* A flow that rethrows without the cause
FlowErrorWithoutCause(cause) == <<"AI Analysis failed">>

\* analyzeMediaFlow's catch: throw new Error(`AI Analysis failed: ${message}`)
FlowError(cause) == <<"AI Analysis failed: ", cause>>

\* The error ref.update throws on an analysis it cannot store (an optional
\* entity the model left out is an undefined field value)
WriteError == <<"Cannot use undefined as a Firestore value">>

\* error.message || "Unknown error"
ErrorMessage(message) ==
    IF message = <<>> THEN <<"Unknown error">> ELSE message

\* peopleDetected of the owner's recent files (limit 50, more than the
\* library holds here)
KnownPeople ==
    UNION {files[g].people : g \in {h \in FileIds : files[h] # NoDoc}}

\* A context fetch whose failure reaches the handler's catch block
FetchContextUnguarded(fails) ==
    [thrown |-> fails, knownPeople |-> IF fails THEN {} ELSE KnownPeople]

\* The known-people query in its own try/catch: a failure is logged and
\* knownPeople stays []
FetchContext(fails) ==
    [thrown |-> FALSE, knownPeople |-> IF fails THEN {} ELSE KnownPeople]

\* An invocation awaiting analyzeMediaFlow({downloadURL, mimeType, uid,
\* fileId, knownPeople}).  The flow's answer is an input of the completion
\* steps, so the context it was given is not kept.
Call(fn, f, knownPeople) == [fn |-> fn, file |-> f, elapsed |-> 0]

\* A guard that lets unfinished records through
PassesGuardWhileUnfinished(e) == e.status \in {"pending", "processing"}

\* A guard that only looks for the after-snapshot
PassesGuardOnExistence(e) == e.status # "absent"

\* The guard of onFileUpload, on the event's after-snapshot
PassesGuard(e) == e.status = "pending"

\* A handler that skips the downloadURL validation
AssumesDownloadURL(e) == TRUE

\* if (!downloadURL), on the event's after-snapshot
HasDownloadURL(e) == e.downloadURL # "null"

\* One delivery of a write event to onFileUpload, up to its first await on
\* analyzeMediaFlow.  keep: the platform will deliver the event again.
\*  - guard fails: return;
\*  - no downloadURL: update failed/missing_url, return;
\*  - else update processing, fetch the context, call analyzeMediaFlow;
\*    when the update throws (the record is gone), the catch block's failed
\*    update throws as well.  fails: the context query fails.
OnFileUploadStartWith(e, keep, fails) ==
    /\ e \in events
    /\ keep => redelivered < MaxRedeliveries
    /\ redelivered' = IF keep THEN redelivered + 1 ELSE redelivered
    /\ LET rest == IF keep THEN events ELSE events \ {e}
           f == e.file
       IN IF ~PassesGuard(e)
          THEN /\ events' = rest
               /\ UNCHANGED <<files, qevents, inv, aiCalls>>
          ELSE IF ~HasDownloadURL(e)
          THEN /\ UpdateFrom(rest, f, Failed(files[f], "missing_url",
                                           <<"Download URL is required">>))
               /\ UNCHANGED <<inv, aiCalls>>
          ELSE /\ FreeSlots # {}
               /\    LET context == FetchContext(fails)
                     IN IF ~Exists(f)
                        THEN /\ events' = rest
                             /\ UNCHANGED <<files, qevents, inv, aiCalls>>
                        ELSE IF context.thrown
                        THEN /\ UpdateFrom(rest, f,
                                    Failed(files[f], "analysis_failed",
                                           <<"context">>))
                             /\ UNCHANGED <<inv, aiCalls>>
                        ELSE /\ UpdateFrom(rest, f, Processing(files[f]))
                             /\ inv' = [inv EXCEPT ![NextSlot] =
                                   Call("onFileUpload", f,
                                        context.knownPeople)]
                             /\ aiCalls' = [aiCalls EXCEPT ![f] = @ + 1]
    /\ UNCHANGED <<profile, sweep, upload, ensure, userProfile, reply>>

OnFileUploadStart(e, keep) ==
    \E fails \in BOOLEAN : OnFileUploadStartWith(e, keep, fails)

\* analyzeMediaFlow returns: the success write.  accepted: the datastore
\* takes the analysis; otherwise the update throws and the catch block
\* writes failed/analysis_failed with the update's message.  (When the
\* document is gone both updates throw and nothing is written.)
OnFileUploadSuccess(i, accepted) ==
    /\ inv[i] # Idle
    /\ inv[i].fn = "onFileUpload"
    /\ Update(inv[i].file,
              IF accepted THEN Ready(files[inv[i].file])
              ELSE Failed(files[inv[i].file], "analysis_failed",
                          ErrorMessage(WriteError)))
    /\ inv' = [inv EXCEPT ![i] = Idle]
    /\ UNCHANGED <<profile, redelivered, sweep, upload, ensure, userProfile,
                   aiCalls, reply>>

\* analyzeMediaFlow throws: the catch block writes failed/analysis_failed.
\* accepted: the datastore takes that write; otherwise the update throws
\* out of the catch block and the handler ends with nothing written.
OnFileUploadFailure(i, cause, accepted) ==
    /\ inv[i] # Idle
    /\ inv[i].fn = "onFileUpload"
    /\ IF accepted
       THEN Update(inv[i].file,
                   Failed(files[inv[i].file], "analysis_failed",
                          ErrorMessage(FlowError(cause))))
       ELSE UNCHANGED <<files, events, qevents>>
    /\ inv' = [inv EXCEPT ![i] = Idle]
    /\ UNCHANGED <<profile, redelivered, sweep, upload, ensure, userProfile,
                   aiCalls, reply>>

\* The worker dies while awaiting the AI call: nothing more is written.
InvocationCrash(i) ==
    /\ inv[i] # Idle
    /\ inv' = [inv EXCEPT ![i] = Idle]
    /\ UNCHANGED <<files, profile, events, qevents, redelivered, sweep,
                   upload, ensure, userProfile, aiCalls, reply>>

\* ------------------------------------- server: analyzeMediaCallable
\* An authenticated call for the caller's own file: get the document,
\* throw when it is missing or has no downloadURL, else update processing,
\* fetch the context and call analyzeMediaFlow.  fails: the context query
\* fails.
AnalyzeMediaCallableStartWith(f, fails) ==
    /\ IF ~Exists(f) \/ files[f].downloadURL = "null"
       THEN /\ reply' = [reply EXCEPT ![f] = "error"]
            /\ UNCHANGED <<files, events, qevents, inv>>
       ELSE /\ FreeSlots # {}
            /\    LET context == FetchContext(fails)
                  IN IF context.thrown
                     THEN /\ Update(f, Failed(files[f],
                                              "manual_analysis_failed",
                                              <<"context">>))
                          /\ reply' = [reply EXCEPT ![f] = "error"]
                          /\ UNCHANGED inv
                     ELSE /\ Update(f, Processing(files[f]))
                          /\ inv' = [inv EXCEPT ![NextSlot] =
                                Call("analyzeMediaCallable", f,
                                     context.knownPeople)]
                          /\ reply' = [reply EXCEPT ![f] = "none"]
    /\ UNCHANGED <<profile, redelivered, sweep, upload, ensure, userProfile,
                   aiCalls>>

AnalyzeMediaCallableStart(f) ==
    \E fails \in BOOLEAN : AnalyzeMediaCallableStartWith(f, fails)

\* analyzeMediaFlow returns: the success write and {success: true}; when
\* the update throws, the catch block writes failed/manual_analysis_failed
\* and throws HttpsError('internal').
AnalyzeMediaCallableSuccess(i, accepted) ==
    /\ inv[i] # Idle
    /\ inv[i].fn = "analyzeMediaCallable"
    /\ Update(inv[i].file,
              IF accepted THEN Ready(files[inv[i].file])
              ELSE Failed(files[inv[i].file], "manual_analysis_failed",
                          WriteError))
    /\ reply' = [reply EXCEPT ![inv[i].file] =
                   IF accepted /\ Exists(inv[i].file) THEN "success"
                   ELSE "error"]
    /\ inv' = [inv EXCEPT ![i] = Idle]
    /\ UNCHANGED <<profile, redelivered, sweep, upload, ensure, userProfile,
                   aiCalls>>

\* analyzeMediaFlow throws: the catch block writes
\* failed/manual_analysis_failed and throws to the caller; when that update
\* throws, its error reaches the caller instead.
AnalyzeMediaCallableFailure(i, cause, accepted) ==
    /\ inv[i] # Idle
    /\ inv[i].fn = "analyzeMediaCallable"
    /\ IF accepted
       THEN Update(inv[i].file,
                   Failed(files[inv[i].file], "manual_analysis_failed",
                          FlowError(cause)))
       ELSE UNCHANGED <<files, events, qevents>>
    /\ reply' = [reply EXCEPT ![inv[i].file] = "error"]
    /\ inv' = [inv EXCEPT ![i] = Idle]
    /\ UNCHANGED <<profile, redelivered, sweep, upload, ensure, userProfile,
                   aiCalls>>

\* ------------------------------------ server: cleanupStuckProcessing
\* where status in [pending, processing] and updatedAt < cutoff
IsStuck(doc) ==
    /\ doc # NoDoc
    /\ doc.status \in {"pending", "processing"}
    /\ doc.updatedAt > STALE_MINUTES

\* snapshot.docs of the query over the documents fs
StuckOf(fs) == {f \in FileIds : IsStuck(fs[f])}

StuckFiles == StuckOf(files)

\* A batch that records the error but leaves status and updatedAt alone
SweptErrorOnly(fs, matched) ==
    [f \in FileIds |->
       IF f \in matched
       THEN [fs[f] EXCEPT !.error = ErrorObject("timeout", <<"timeout">>)]
       ELSE fs[f]]

\* The batch: every matched document updated to failed/timeout
Swept(fs, matched) ==
    [f \in FileIds |->
       IF f \in matched
       THEN Failed(fs[f], "timeout",
                   <<"AI pipeline timeout. Please click Reanalyze.">>)
       ELSE fs[f]]

\* The collection-group query; an empty snapshot ends the run.
WatchdogQuery ==
    /\ ~sweep.active
    /\ StuckFiles # {}
    /\ sweep' = [active |-> TRUE, matched |-> StuckFiles]
    /\ UNCHANGED <<files, profile, events, qevents, redelivered, inv, upload,
                   ensure, userProfile, aiCalls, reply>>

\* batch.commit(): every matched document is updated to failed/timeout, or,
\* when one of them no longer exists, the batch is rejected as a whole and
\* the error is logged.
WatchdogCommit ==
    /\ sweep.active
    /\ sweep' = NoSweep
    /\ IF \A f \in sweep.matched : Exists(f)
       THEN LET new == Swept(files, sweep.matched)
                evs == {Snapshot(f, new[f]) : f \in sweep.matched}
            IN /\ CanEmit(events, evs)
               /\ files' = new
               /\ events' = events \cup evs
               /\ qevents' = qevents \cup
                     {QuotaEvent(f, files[f], new[f]) : f \in sweep.matched}
       ELSE UNCHANGED <<files, events, qevents>>
    /\ UNCHANGED <<profile, redelivered, inv, upload, ensure, userProfile,
                   aiCalls, reply>>

\* ---------------------------------------------- server: manageQuota
\* A delta that counts creations and size changes but not deletions
SizeDeltaWithoutDeletion(e) ==
    IF e.before = -1 /\ e.after # -1 THEN e.after
    ELSE IF e.before # -1 /\ e.after # -1 THEN e.after - e.before
    ELSE 0

\* The signed size delta of a write, from its before/after snapshots
SizeDelta(e) ==
    IF e.before = -1 /\ e.after # -1 THEN e.after
    ELSE IF e.before # -1 /\ e.after = -1 THEN 0 - e.before
    ELSE IF e.before # -1 /\ e.after # -1 THEN e.after - e.before
    ELSE 0

\* userRef.update({usedBytes: increment(sizeDelta)}) when the delta is not
\* zero; the update of a missing profile throws, which is caught and logged.
\* keep: the platform will deliver the event again.
ManageQuotaWith(e, keep) ==
    /\ e \in qevents
    /\ keep => redelivered < MaxRedeliveries
    /\ redelivered' = IF keep THEN redelivered + 1 ELSE redelivered
    /\ qevents' = IF keep THEN qevents ELSE qevents \ {e}
    /\ profile' = IF SizeDelta(e) # 0 /\ profile.exists
                  THEN [profile EXCEPT !.usedBytes = @ + SizeDelta(e)]
                  ELSE profile
    /\ UNCHANGED <<files, events, inv, sweep, upload, ensure, userProfile,
                   aiCalls, reply>>

\* One delivery of a write event to manageQuota that is not repeated
ManageQuota(e) == ManageQuotaWith(e, FALSE)

\* ------------------------------------------- client: AuthContext
\* ensureUserProfile reads the profile and finds none.  (When it finds one
\* it only refreshes lastLogin, email, photoURL and displayName.)
EnsureUserProfileRead(s) ==
    /\ ensure[s] = "idle"
    /\ \A t \in Sessions : t < s => ensure[t] # "idle"
    /\ ~profile.exists
    /\ ensure' = [ensure EXCEPT ![s] = "missing"]
    /\ UNCHANGED <<files, profile, events, qevents, redelivered, inv, sweep,
                   upload, userProfile, aiCalls, reply>>

\* ... and then setDoc(userRef, {..., quotaBytes: 104857600, usedBytes: 0})
EnsureUserProfileCreate(s) ==
    /\ ensure[s] = "missing"
    /\ profile' = NewProfile
    /\ ensure' = [ensure EXCEPT ![s] = "done"]
    /\ UNCHANGED <<files, events, qevents, redelivered, inv, sweep, upload,
                   userProfile, aiCalls, reply>>

\* The quotas an administrator enters (0 GB and 1 GB), in bytes
AdminQuotas == {0, 1073741824}

\* The admin dashboard's handleUpdateQuota: updateUserQuota(uid, bytes), an
\* updateDoc that is rejected when the profile does not exist
UpdateUserQuota(bytes) ==
    /\ profile.exists
    /\ profile.quotaBytes # bytes
    /\ profile' = [profile EXCEPT !.quotaBytes = bytes]
    /\ UNCHANGED <<files, events, qevents, redelivered, inv, sweep, upload,
                   ensure, userProfile, aiCalls, reply>>

\* onSnapshot(userRef): the client's copy of the profile is refreshed
ProfileSnapshot ==
    /\ profile.exists
    /\ userProfile # profile
    /\ userProfile' = profile
    /\ UNCHANGED <<files, profile, events, qevents, redelivered, inv, sweep,
                   upload, ensure, aiCalls, reply>>

\* ------------------------------------------------------------- time
Aged(doc) ==
    IF doc = NoDoc \/ doc.updatedAt = NoTime \/ doc.updatedAt >= AgeCap
    THEN doc
    ELSE [doc EXCEPT !.updatedAt = @ + 1]

Timeout(fn) ==
    IF fn = "onFileUpload" THEN TRIGGER_TIMEOUT_MINUTES
    ELSE CALLABLE_TIMEOUT_MINUTES

\* One minute passes; the platform ends invocations at their timeout.
Tick ==
    /\ files' = [f \in FileIds |-> Aged(files[f])]
    /\ inv' = [i \in Slots |->
                 IF inv[i] = Idle THEN Idle
                 ELSE IF inv[i].elapsed + 1 >= Timeout(inv[i].fn) THEN Idle
                 ELSE [inv[i] EXCEPT !.elapsed = @ + 1]]
    /\ UNCHANGED <<profile, events, qevents, redelivered, sweep, upload,
                   ensure, userProfile, aiCalls, reply>>

\* ---------------------------------------------------- specifications
\* A signed-in user whose profile exists and is loaded, and an empty library.
Init ==
    /\ files = [f \in FileIds |-> NoDoc]
    /\ profile = NewProfile
    /\ events = {}
    /\ qevents = {}
    /\ redelivered = 0
    /\ inv = [i \in Slots |-> Idle]
    /\ sweep = NoSweep
    /\ upload = [f \in FileIds |-> NoUpload]
    /\ ensure = [s \in Sessions |-> "idle"]
    /\ userProfile = NewProfile
    /\ aiCalls = [f \in FileIds |-> 0]
    /\ reply = [f \in FileIds |-> "none"]

\* The transfer and its callbacks, for the files F
Transfer(F) ==
    \/ \E f \in F : CreatePlaceholder(f)
    \/ \E f \in F : TransferSuccess(f)
    \/ \E f \in F : FinalizeUpload(f)
    \/ \E f \in F : TransferError(f)
    \/ \E f \in F : StallTimeout(f)
    \/ \E f \in F : CancelUpload(f)
    \/ \E f \in F : CanceledCallback(f)

Analysis ==
    \/ \E i \in Slots, accepted \in BOOLEAN : OnFileUploadSuccess(i, accepted)
    \/ \E i \in Slots, cause \in AIFailures, accepted \in BOOLEAN :
          OnFileUploadFailure(i, cause, accepted)
    \/ \E i \in Slots : InvocationCrash(i)

Reanalysis(F) ==
    \/ \E f \in F : AnalyzeMediaCallableStart(f)
    \/ \E i \in Slots, accepted \in BOOLEAN :
          AnalyzeMediaCallableSuccess(i, accepted)
    \/ \E i \in Slots, cause \in AIFailures, accepted \in BOOLEAN :
          AnalyzeMediaCallableFailure(i, cause, accepted)

Watchdog ==
    \/ WatchdogQuery
    \/ WatchdogCommit

\* The pipeline: uploads (handleUpload and saveGeneratedItem), deletion,
\* the analysis trigger with duplicate deliveries, manual re-analysis, the
\* watchdog and time.
Next ==
    \/ \E f \in PipelineFiles, gen \in BOOLEAN :
          InitiateUpload(f, SmallFile, gen, FALSE)
    \/ Transfer(PipelineFiles)
    \/ \E f \in PipelineFiles : SaveGeneratedAnalysis(f)
    \/ \E f \in PipelineFiles : DeleteItem(f)
    \/ \E e \in events, keep \in BOOLEAN : OnFileUploadStart(e, keep)
    \/ Analysis
    \/ Reanalysis(PipelineFiles)
    \/ Watchdog
    \/ Tick

Spec == Init /\ [][Next]_vars

\* The watchdog over several records: uploads, the trigger (each event
\* delivered once), deletion, the sweep and time.
WatchdogNext ==
    \/ \E f \in FileIds : InitiateUpload(f, SmallFile, FALSE, FALSE)
    \/ \E f \in FileIds : CreatePlaceholder(f)
    \/ \E f \in FileIds : TransferSuccess(f)
    \/ \E f \in FileIds : FinalizeUpload(f)
    \/ \E f \in FileIds : DeleteItem(f)
    \/ \E e \in events : OnFileUploadStart(e, FALSE)
    \/ Analysis
    \/ Watchdog
    \/ Tick

WatchdogSpec == Init /\ [][WatchdogNext]_vars

\* Quota: a first sign-in, uploads up to the placeholder, deletions and the
\* quota trigger.  The profile does not exist before the first sign-in.
QuotaInit ==
    /\ files = [f \in FileIds |-> NoDoc]
    /\ profile = NoProfile
    /\ events = {}
    /\ qevents = {}
    /\ redelivered = 0
    /\ inv = [i \in Slots |-> Idle]
    /\ sweep = NoSweep
    /\ upload = [f \in FileIds |-> NoUpload]
    /\ ensure = [s \in Sessions |-> "idle"]
    /\ userProfile = NoProfile
    /\ aiCalls = [f \in FileIds |-> 0]
    /\ reply = [f \in FileIds |-> "none"]

QuotaNext ==
    \/ \E s \in Sessions : EnsureUserProfileRead(s)
    \/ \E s \in Sessions : EnsureUserProfileCreate(s)
    \/ ProfileSnapshot
    \/ \E f \in FileIds, size \in FileSizes, gen \in BOOLEAN,
          readFails \in BOOLEAN : InitiateUpload(f, size, gen, readFails)
    \/ \E f \in FileIds : CreatePlaceholder(f)
    \/ \E f \in FileIds : DeleteItem(f)
    \/ \E e \in events : OnFileUploadStart(e, FALSE)
    \/ \E e \in qevents : ManageQuota(e)

QuotaSpec == QuotaInit /\ [][QuotaNext]_vars

\* Admission: uploads of either size by a signed-in user up to the
\* placeholder, with the quota trigger and the profile listener.
AdmissionNext ==
    \/ ProfileSnapshot
    \/ \E f \in FileIds, size \in FileSizes, gen \in BOOLEAN,
          readFails \in BOOLEAN : InitiateUpload(f, size, gen, readFails)
    \/ \E f \in FileIds : CreatePlaceholder(f)
    \/ \E e \in events : OnFileUploadStart(e, FALSE)
    \/ \E e \in qevents : ManageQuota(e)

AdmissionSpec == Init /\ [][AdmissionNext]_vars

\* The server handlers on one record they are handed in status pending: the
\* record finalizeUpload leaves, or a record written to the collection
\* without a downloadURL.  Deliveries may repeat; the owner may re-analyse
\* or delete the record.
TriggerDocs ==
    {Finalized(Placeholder(SmallFile)),
     [Placeholder(SmallFile) EXCEPT !.status = "pending", !.updatedAt = 0]}

TriggerInit ==
    \E d \in TriggerDocs :
       /\ files = [f \in FileIds |-> IF f = 1 THEN d ELSE NoDoc]
       /\ events = {Snapshot(1, d)}
       /\ profile = NewProfile
       /\ qevents = {}
       /\ redelivered = 0
       /\ inv = [i \in Slots |-> Idle]
       /\ sweep = NoSweep
       /\ upload = [f \in FileIds |-> NoUpload]
       /\ ensure = [s \in Sessions |-> "idle"]
       /\ userProfile = NewProfile
       /\ aiCalls = [f \in FileIds |-> 0]
       /\ reply = [f \in FileIds |-> "none"]

TriggerNext ==
    \/ \E e \in events, keep \in BOOLEAN : OnFileUploadStart(e, keep)
    \/ Analysis
    \/ Reanalysis(PipelineFiles)
    \/ \E f \in PipelineFiles : DeleteItem(f)

TriggerSpec == TriggerInit /\ [][TriggerNext]_vars

\* The sweep over a library whose records are at any stage of the pipeline
\* (absent, uploading, pending, processing with its invocation gone, ready):
\* the watchdog, time, deletion and the delivery of the events they cause.
SweepDocs ==
    {NoDoc, Placeholder(SmallFile), Finalized(Placeholder(SmallFile)),
     Processing(Finalized(Placeholder(SmallFile))),
     Ready(Processing(Finalized(Placeholder(SmallFile))))}

SweepInit ==
    /\ files \in [FileIds -> SweepDocs]
    /\ profile = NewProfile
    /\ events = {}
    /\ qevents = {}
    /\ redelivered = 0
    /\ inv = [i \in Slots |-> Idle]
    /\ sweep = NoSweep
    /\ upload = [f \in FileIds |-> NoUpload]
    /\ ensure = [s \in Sessions |-> "idle"]
    /\ userProfile = NewProfile
    /\ aiCalls = [f \in FileIds |-> 0]
    /\ reply = [f \in FileIds |-> "none"]

SweepNext ==
    \/ Watchdog
    \/ Tick
    \/ \E f \in FileIds : DeleteItem(f)
    \/ \E e \in events : OnFileUploadStart(e, FALSE)

SweepSpec == SweepInit /\ [][SweepNext]_vars

\* The Upload Coordinator: uploads with their failures,
\* cancel, retry and delete, and the analysis trigger on what they finalize.
UploadNext ==
    \/ \E f \in PipelineFiles, gen \in BOOLEAN :
          InitiateUpload(f, SmallFile, gen, FALSE)
    \/ Transfer(PipelineFiles)
    \/ \E f \in PipelineFiles : SaveGeneratedAnalysis(f)
    \/ \E f \in PipelineFiles : DeleteItem(f)
    \/ \E f \in PipelineFiles : RetryUpload(f)
    \/ \E e \in events : OnFileUploadStart(e, FALSE)
    \/ Analysis

UploadSpec == Init /\ [][UploadNext]_vars

\* Intake: files of any type picked in the two file inputs, and the
\* transfers of those that are admitted.
IntakeNext ==
    \/ \E f \in FileIds, mime \in MimeTypes, size \in FileSizes :
          HandleFileChange(f, mime, size)
    \/ \E f \in FileIds, mime \in MimeTypes, size \in FileSizes :
          MobileInputChange(f, mime, size)
    \/ \E f \in FileIds : CreatePlaceholder(f)
    \/ \E f \in FileIds : TransferSuccess(f)
    \/ \E f \in FileIds : FinalizeUpload(f)
    \/ \E f \in FileIds : TransferError(f)

IntakeSpec == Init /\ [][IntakeNext]_vars

\* The user's edits of analysed records
ClientEdit ==
    \/ \E oldName \in Names, newName \in Names :
          RenamePerson(oldName, newName)
    \/ \E f \in FileIds, personName \in Names : ConfirmMatch(f, personName)
    \/ \E f \in FileIds : NSFWReview(f)
    \/ \E f \in FileIds : EditTags(f)

\* No record other than f is in the library or on its way into it, and
\* nothing of an earlier record is left in the pipeline
Alone(f) ==
    /\ \A g \in FileIds \ {f} :
          ~Exists(g) /\ upload[g].st \in {"idle", "rejected", "closed"}
    /\ events = {}
    /\ \A i \in Slots : inv[i] = Idle

\* Editing: one record at a time is uploaded, analysed (the model answers
\* or is rate limited), re-analysed on demand, edited by the user and
\* deleted.
EditNext ==
    \/ \E f \in PipelineFiles :
          Alone(f) /\ InitiateUpload(f, SmallFile, FALSE, FALSE)
    \/ Transfer(PipelineFiles)
    \/ \E f \in PipelineFiles : DeleteItem(f)
    \/ \E e \in events : OnFileUploadStart(e, FALSE)
    \/ \E i \in Slots : OnFileUploadSuccess(i, TRUE)
    \/ \E i \in Slots : OnFileUploadFailure(i, "rate limited", TRUE)
    \/ \E f \in PipelineFiles : AnalyzeMediaCallableStart(f)
    \/ \E i \in Slots : AnalyzeMediaCallableSuccess(i, TRUE)
    \/ ClientEdit

EditSpec == Init /\ [][EditNext]_vars

\* The writes manageQuota can be handed: a record created, deleted, or
\* updated with or without a change of sizeBytes
QuotaWrites ==
    {[file |-> f, before |-> b, after |-> a] :
        f \in FileIds, b \in FileSizes \cup {-1}, a \in FileSizes \cup {-1}}
      \ {[file |-> f, before |-> -1, after |-> -1] : f \in FileIds}

\* Reconciliation: an existing profile and one or two writes waiting for
\* manageQuota.
ReconcileInit ==
    /\ files = [f \in FileIds |-> NoDoc]
    /\ profile = NewProfile
    /\ events = {}
    /\ qevents \in {S \in SUBSET QuotaWrites : Cardinality(S) \in 1..2}
    /\ redelivered = 0
    /\ inv = [i \in Slots |-> Idle]
    /\ sweep = NoSweep
    /\ upload = [f \in FileIds |-> NoUpload]
    /\ ensure = [s \in Sessions |-> "idle"]
    /\ userProfile = NewProfile
    /\ aiCalls = [f \in FileIds |-> 0]
    /\ reply = [f \in FileIds |-> "none"]

ReconcileNext == \E e \in qevents : ManageQuota(e)

ReconcileSpec == ReconcileInit /\ [][ReconcileNext]_vars

\* The profile: sign-ins of several sessions, the administrator's quota
\* updates, uploads up to the placeholder and the quota trigger.
ProfileNext ==
    \/ \E s \in Sessions : EnsureUserProfileRead(s)
    \/ \E s \in Sessions : EnsureUserProfileCreate(s)
    \/ ProfileSnapshot
    \/ \E bytes \in AdminQuotas : UpdateUserQuota(bytes)
    \/ \E f \in PipelineFiles : InitiateUpload(f, SmallFile, FALSE, FALSE)
    \/ \E f \in PipelineFiles : CreatePlaceholder(f)
    \/ \E e \in events : OnFileUploadStart(e, FALSE)
    \/ \E e \in qevents : ManageQuota(e)

ProfileSpec == QuotaInit /\ [][ProfileNext]_vars

\* Feedback: a record is uploaded and analysed (its event may be delivered
\* again), edited by the user, re-analysed on demand, and swept by the
\* watchdog when an invocation dies.
FeedbackNext ==
    \/ \E f \in PipelineFiles : InitiateUpload(f, SmallFile, FALSE, FALSE)
    \/ \E f \in PipelineFiles : CreatePlaceholder(f)
    \/ \E f \in PipelineFiles : TransferSuccess(f)
    \/ \E f \in PipelineFiles : FinalizeUpload(f)
    \/ \E e \in events, keep \in BOOLEAN : OnFileUploadStart(e, keep)
    \/ \E i \in Slots : OnFileUploadSuccess(i, TRUE)
    \/ \E i \in Slots : InvocationCrash(i)
    \/ \E f \in PipelineFiles : AnalyzeMediaCallableStart(f)
    \/ \E i \in Slots : AnalyzeMediaCallableSuccess(i, TRUE)
    \/ ClientEdit
    \/ Watchdog
    \/ Tick

FeedbackSpec == Init /\ [][FeedbackNext]_vars

\* Progress: one upload, the trigger, the watchdog and time.  The schedule
\* keeps running, time passes and the platform delivers every event; the
\* client and the AI call are under no obligation to take a step.
FairNext ==
    \/ \E f \in PipelineFiles : InitiateUpload(f, SmallFile, FALSE, FALSE)
    \/ \E f \in PipelineFiles : CreatePlaceholder(f)
    \/ \E f \in PipelineFiles : TransferSuccess(f)
    \/ \E f \in PipelineFiles : FinalizeUpload(f)
    \/ \E e \in events : OnFileUploadStart(e, FALSE)
    \/ Analysis
    \/ Watchdog
    \/ Tick

FairSpec ==
    /\ Init
    /\ [][FairNext]_vars
    /\ WF_vars(Tick)
    /\ WF_vars(WatchdogQuery)
    /\ WF_vars(WatchdogCommit)
    /\ WF_vars(\E e \in events : OnFileUploadStart(e, FALSE))

\* ------------------------------------------------------------ claims
Statuses == {"uploading", "pending", "processing", "ready", "failed"}
Terminal == {"ready", "failed"}

\* The order uploading < pending < processing < {ready, failed}; the
\* client's 'error' counts as a failure.
Rank(status) ==
    CASE status = "uploading" -> 0
      [] status = "pending" -> 1
      [] status = "processing" -> 2
      [] OTHER -> 3

\* An analysis invocation in slot i writes ready to file f in this step.
WritesReady(i, f) ==
    /\ inv[i] # Idle
    /\ inv[i].file = f
    /\ Exists(f)
    /\ OnFileUploadSuccess(i, TRUE) \/ AnalyzeMediaCallableSuccess(i, TRUE)

\* A step of analyzeMediaCallable on file f
CallableStep(f) ==
    \/ AnalyzeMediaCallableStart(f)
    \/ \E i \in Slots :
          /\ inv[i] # Idle
          /\ inv[i].file = f
          /\ \/ \E accepted \in BOOLEAN :
                   AnalyzeMediaCallableSuccess(i, accepted)
             \/ \E cause \in AIFailures, accepted \in BOOLEAN :
                   AnalyzeMediaCallableFailure(i, cause, accepted)

\* C1: a record whose transfer succeeds passes uploading, pending,
\* processing, then ready or failed: it leaves uploading only for pending
\* (or a failure), ready is only ever written to a record whose status is
\* processing, and pending becomes failed without passing processing only
\* by the missing-downloadURL shortcut.
C1_PipelineOrder ==
    [][\A f \in FileIds :
         /\ (\E i \in Slots : WritesReady(i, f))
               => files[f].status = "processing"
         /\ (files[f].status = "pending" /\ files'[f].status = "failed")
               => ErrorCode(files'[f]) = "missing_url"
         /\ (files[f].status = "uploading" /\ Exists(f)'
               /\ files'[f].status # "uploading")
               => files'[f].status \in {"pending", "failed", "error"}
      ]_vars

\* C2: under duplicate delivery of the one pending write event of a file,
\* onFileUpload calls analyzeMediaFlow at most once.
C2_AtMostOneAICall == \A f \in FileIds : aiCalls[f] <= 1

\* C3: no write moves a record's status backward in the order, except
\* analyzeMediaCallable setting a ready or failed record to processing.
C3_NoBackwardWrite ==
    [][\A f \in FileIds :
         (Exists(f) /\ Exists(f)' /\ Rank(files'[f].status) < Rank(files[f].status))
            => /\ AnalyzeMediaCallableStart(f)
               /\ files[f].status \in Terminal
      ]_vars

\* C4: once ready or failed, a record's status changes only in a step of
\* analyzeMediaCallable (deleting the record aside).
C4_TerminalIsStable ==
    [][\A f \in FileIds :
         (files[f].status \in Terminal /\ Exists(f)'
            /\ files'[f].status # files[f].status)
            => CallableStep(f)
      ]_vars

\* C8: a ready record has analysis and analyzedAt; a record in any other
\* status has an analysis only if an earlier analysis cycle succeeded
\* (which is what sets analyzedAt).
C8_AnalysisIffReady ==
    \A f \in FileIds :
       Exists(f) =>
          /\ files[f].status = "ready"
                => files[f].analysis # "absent" /\ files[f].analyzedAt
          /\ (files[f].status # "ready" /\ files[f].analysis # "absent")
                => files[f].analyzedAt

\* C9: the status of every existing record is one of the five states.
C9_StatusInFiveStates ==
    \A f \in FileIds : Exists(f) => files[f].status \in Statuses

\* C5: a run of cleanupStuckProcessing sets every record that is pending or
\* processing with updatedAt older than the threshold to failed with code
\* timeout, and leaves every other record untouched.
C5_SweepFailsExactlyTheStale ==
    [][/\ WatchdogQuery => sweep'.matched = StuckFiles
       /\ WatchdogCommit =>
             \A f \in FileIds :
                IF f \in sweep.matched
                THEN Exists(f) => /\ files'[f].status = "failed"
                                  /\ ErrorCode(files'[f]) = "timeout"
                ELSE files'[f] = files[f]
      ]_vars

\* C6: with the watchdog schedule running, every created record eventually
\* has status ready or failed.
C6_EventuallyTerminal ==
    \A f \in FileIds : [](Exists(f) => <>(files[f].status \in Terminal))

RECURSIVE SumSizes(_)
SumSizes(S) ==
    IF S = {} THEN 0
    ELSE LET f == CHOOSE x \in S : TRUE
         IN files[f].sizeBytes + SumSizes(S \ {f})

\* The sum of sizeBytes over the owner's existing records
TotalSize == SumSizes({f \in FileIds : Exists(f)})

\* C7: once every manageQuota invocation has completed, usedBytes is the sum
\* of sizeBytes over the owner's existing records.
C7_UsedBytesIsSum ==
    (qevents = {} /\ profile.exists) => profile.usedBytes = TotalSize

\* C10: an upload initiated while quotaBytes - usedBytes < file.size is
\* rejected before any write: the step writes no document and emits no
\* event, and a rejected attempt never gets a record or a transfer.
C10_QuotaRejectsBeforeWrite ==
    [][\A f \in FileIds :
         /\ (/\ upload[f].st = "idle"
             /\ upload'[f].st # "idle"
             /\ profile.exists
             /\ profile.quotaBytes - profile.usedBytes < upload'[f].size)
               => /\ upload'[f].st = "rejected"
                  /\ UNCHANGED <<files, events, qevents, profile>>
         /\ upload[f].st = "rejected"
               => /\ upload'[f].st = "rejected"
                  /\ files[f] = NoDoc
                  /\ files'[f] = NoDoc
      ]_vars

\* C10: an attempt stands rejected while the owner's remaining space is
\* smaller than the file and another record accounts for the usage.
C10_Witness ==
    \E f \in FileIds :
       /\ upload[f].st = "rejected"
       /\ profile.exists
       /\ profile.usedBytes > 0
       /\ profile.quotaBytes - profile.usedBytes < upload[f].size
       /\ upload[f].size <= profile.quotaBytes
       /\ ~Exists(f)

\* C11: when the AI call of an onFileUpload invocation throws with message
\* M (or the output is missing), the handler's write leaves the record
\* failed with code analysis_failed and a message that contains M.
C11_AnalysisFailedCarriesMessage ==
    [][\A i \in Slots, cause \in AIFailures :
         (/\ inv[i] # Idle
          /\ Exists(inv[i].file)
          /\ OnFileUploadFailure(i, cause, TRUE))
            => /\ files'[inv[i].file].status = "failed"
               /\ ErrorCode(files'[inv[i].file]) = "analysis_failed"
               /\ Contains(files'[inv[i].file].error.message, cause)
      ]_vars

\* C11: a record stands failed with code analysis_failed and the model's
\* "rate limited" in its message.
C11_Witness ==
    \E f \in FileIds :
       /\ files[f].status = "failed"
       /\ ErrorCode(files[f]) = "analysis_failed"
       /\ Contains(files[f].error.message, "rate limited")

\* An onFileUpload invocation in slot i returns or throws in this step.
TriggerExits(i) ==
    \/ \E accepted \in BOOLEAN : OnFileUploadSuccess(i, accepted)
    \/ \E cause \in AIFailures, accepted \in BOOLEAN :
          OnFileUploadFailure(i, cause, accepted)

\* C12: an onFileUpload invocation that got past the guard leaves the
\* record in a terminal status when it returns or throws, also when one of
\* its own writes is rejected.
C12_TerminalBeforeExit ==
    [][\A i \in Slots :
         (/\ inv[i] # Idle
          /\ Exists(inv[i].file)
          /\ TriggerExits(i))
            => files'[inv[i].file].status \in Terminal
      ]_vars

\* C13: handed a write whose after-snapshot is pending without a
\* downloadURL, onFileUpload sets the record to failed with code
\* missing_url, writes no processing, starts no AI call and returns, so the
\* delivery is not repeated on its account.
C13_MissingUrlFailsDirectly ==
    [][\A e \in events, keep \in BOOLEAN :
         (/\ e.status = "pending"
          /\ e.downloadURL = "null"
          /\ Exists(e.file)
          /\ OnFileUploadStart(e, keep))
            => /\ files'[e.file].status = "failed"
               /\ ErrorCode(files'[e.file]) = "missing_url"
               /\ inv' = inv
               /\ aiCalls' = aiCalls
               /\ ~keep => e \notin events'
      ]_vars

\* C13: a record stands failed with code missing_url, and no AI call was
\* ever made for it.
C13_Witness ==
    \E f \in FileIds :
       /\ files[f].status = "failed"
       /\ ErrorCode(files[f]) = "missing_url"
       /\ files[f].downloadURL = "null"
       /\ aiCalls[f] = 0

\* C14: no two invocations are between their processing write and their
\* terminal write on the same record when one of them is an
\* analyzeMediaCallable.
C14_NoConcurrentAnalysis ==
    \A i, j \in Slots :
       (/\ i # j
        /\ inv[i] # Idle
        /\ inv[j] # Idle
        /\ inv[i].file = inv[j].file)
          => inv[i].fn = "onFileUpload" /\ inv[j].fn = "onFileUpload"

C16_SweepIsIdempotent ==
    LET first == Swept(files, StuckOf(files))
    IN /\ StuckOf(first) = {}
       /\ Swept(first, StuckOf(first)) = first

\* C16 happens: a sweep has failed a stale record and a second query in the
\* same minute finds nothing.
C16_Witness ==
    /\ ~sweep.active
    /\ StuckFiles = {}
    /\ \E f \in FileIds :
          /\ Exists(f)
          /\ files[f].status = "failed"
          /\ ErrorCode(files[f]) = "timeout"
          /\ files[f].updatedAt = 0
    /\ \E f \in FileIds : Exists(f) /\ files[f].status = "ready"

\* C17: in every reachable state downloadURL is null while status is
\* uploading and non-null while status is pending, processing or ready, and
\* every write that takes a record to pending (finalizeUpload is the only
\* one) sets the status and the populated downloadURL together.
C17_UrlFollowsStatus ==
    /\ [](\A f \in FileIds :
            Exists(f) =>
              /\ files[f].status = "uploading" =>
                    files[f].downloadURL = "null"
              /\ files[f].status \in {"pending", "processing", "ready"} =>
                    files[f].downloadURL # "null")
    /\ [][\A f \in FileIds :
            /\ Exists(f)
            /\ files'[f] # NoDoc
            /\ files'[f].status = "pending"
            /\ files[f].status # "pending"
            => /\ FinalizeUpload(f)
               /\ files[f].downloadURL = "null"
               /\ files'[f].downloadURL # "null"
         ]_vars

\* C17 happens: an uploaded record has been finalized and analysed, and
\* carries its URL in status ready.
C17_Witness ==
    \E f \in FileIds :
       /\ Exists(f)
       /\ upload[f].st = "closed"
       /\ files[f].status = "ready"
       /\ files[f].downloadURL # "null"

\* A transfer of f fails in this step: the error callback, the stall timer,
\* or the error callback of a cancelled task
TransferFails(f) == TransferError(f) \/ StallTimeout(f) \/ CanceledCallback(f)

\* C18: when a transfer fails for any reason, cancellation included, the
\* record's status becomes failed with a structured error (code, message,
\* timestamp), and a failure toast is raised for every failure except the
\* storage/canceled one.
C18_TransferFailureIsStructured ==
    [][\A f \in FileIds :
          TransferFails(f) /\ Exists(f)
          => /\ files'[f].status = "failed"
             /\ files'[f].error.kind = "object"
             /\ CanceledCallback(f) => upload'[f].toast = upload[f].toast
             /\ ~CanceledCallback(f) /\ ~upload[f].gen
                   => upload'[f].toast \in FailureToasts
      ]_vars

\* The toasts of C18 alone: every failure but the cancelled one raises a
\* failure toast.
ToastOnEveryFailureButCancel ==
    [][\A f \in FileIds :
          TransferFails(f) /\ Exists(f)
          => /\ CanceledCallback(f) => upload'[f].toast = upload[f].toast
             /\ ~CanceledCallback(f) /\ ~upload[f].gen
                   => upload'[f].toast \in FailureToasts
      ]_vars

\* The transfer handleUpload started for f is still running
InFlight(f) == upload[f].st = "running" /\ ~upload[f].gen

\* The transfer of f has succeeded, failed or timed out
TransferEnded(f) ==
    \/ upload[f].st \in {"urlfetch", "analysis", "closed"}
    \/ upload[f].st = "canceled" /\ ~upload[f].task

\* C19: cancel(id) aborts the transfer when one is in flight for the record
\* and never writes the record; invoked for a record whose transfer already
\* succeeded, failed or timed out it changes nothing, durable or ephemeral.
C19_CancelOnlyAbortsInFlight ==
    [][\A f \in FileIds :
          CancelUpload(f)
          => /\ files' = files
             /\ InFlight(f) => upload'[f].st = "canceled"
             /\ TransferEnded(f) => UNCHANGED vars
      ]_vars

\* C19 happens: a cancel has aborted a transfer, its error callback has
\* run, and the record of the ended transfer is there to be cancelled again.
C19_Witness ==
    \E f \in FileIds :
       /\ Exists(f)
       /\ TransferEnded(f)
       /\ upload[f].st = "closed"
       /\ upload[f].toast = "cancelled"
       /\ files[f].error = ErrorString("cancelled_by_user")

\* A fresh initiate starts in this step: an unused id gets an attempt
StartsUpload ==
    \E g \in FileIds : upload[g].st = "idle" /\ upload'[g].st # "idle"

\* C20: retry(id) on a failed record deletes the record; when the session
\* still holds the original file (and an id is left to draw) it then starts
\* a fresh initiate with that file, and when the file is gone it starts no
\* upload.
C20_RetryRestartsHeldFile ==
    [][\A f \in FileIds :
          RetryUpload(f)
          => /\ files'[f] = NoDoc
             /\ IF FileInMemory(f)
                THEN (\E g \in FileIds : upload[g].st = "idle")
                        => StartsUpload
                ELSE ~StartsUpload
      ]_vars

\* C21: a file whose declared MIME type is not image, video or audio is
\* rejected on every entry path before any network call: no quota read is
\* made, no record is created and no transfer is started for it.
C21_UnsupportedTypeNeverStarts ==
    \A f \in FileIds :
       upload[f].st # "idle" \/ Exists(f) => Supported(upload[f].mime)

\* C22: no durable write of a user edit (tag edit, person rename, face-match
\* confirm, moderation review) stores the overlaid progress, the overlaid
\* status uploading or a local preview URL into a record: a step that
\* stores one of them is not a step of an edit handler.
C22_OverlayNeverWritten ==
    [][(\E f \in FileIds :
           /\ files'[f] # files[f]
           /\ files'[f] # NoDoc
           /\ \/ files'[f].progress = LocalProgress
              \/ files'[f].url = "blob:preview"
              \/ files'[f].status = "uploading" /\ files[f] # NoDoc)
       => ~ClientEdit
      ]_vars

\* C22 happens: a merged library item has been written back by an edit (the
\* record carries the item's url and the edit flag).
C22_Witness ==
    \E f \in FileIds :
       /\ Exists(f)
       /\ files[f].url # "absent"
       /\ files[f].edited

\* C23: a rename of person A to B leaves every record that listed A
\* listing B instead with isUserEdited set, and no record listing A.
C23_RenameReplacesEverywhere ==
    \A oldName \in Names : \A newName \in Names \ {oldName} :
       LET after == RenamedLibrary(oldName, newName)
       IN \A f \in FileIds :
             Exists(f) =>
               /\ oldName \notin after[f].people
               /\ oldName \in files[f].people =>
                     newName \in after[f].people /\ after[f].edited

\* C24: for each write manageQuota adds +sizeBytes on a creation,
\* -sizeBytes on a deletion and new minus old sizeBytes on an update to the
\* owner's usedBytes in one increment, and leaves the profile alone when
\* that delta is zero.
C24_QuotaDelta ==
    [][\A e \in qevents :
          ManageQuota(e) /\ profile.exists
          => LET delta == IF e.before = -1 THEN e.after
                          ELSE IF e.after = -1 THEN 0 - e.before
                          ELSE e.after - e.before
             IN IF delta = 0
                THEN profile' = profile
                ELSE profile' = [profile EXCEPT !.usedBytes = @ + delta]
      ]_vars

\* C24 happens: the writes have been reconciled and usedBytes has gone down
\* by a deletion.
C24_Witness ==
    /\ qevents = {}
    /\ profile.exists
    /\ profile.usedBytes = 0 - SmallFile

\* C25: once the profile exists, usedBytes is changed only by manageQuota
\* and quotaBytes only by updateUserQuota; uploads, the analysis handlers,
\* the watchdog and further sign-ins leave both as they are.
C25_QuotaFieldsHaveOneWriter ==
    [][profile.exists
       => /\ profile'.exists
          /\ profile'.usedBytes # profile.usedBytes
                => \E e \in qevents : ManageQuota(e)
          /\ profile'.quotaBytes # profile.quotaBytes
                => \E bytes \in AdminQuotas : UpdateUserQuota(bytes)
      ]_vars

\* C26: in every reachable state a record has an error only while its
\* status is failed; a record that is processing again or was re-analysed
\* to ready carries none.
C26_ErrorOnlyWhileFailed ==
    \A f \in FileIds :
       Exists(f) /\ files[f].error # NoError => files[f].status = "failed"

\* A user's edit of record f is lost in this step: the record stays, but
\* its isUserEdited flag is cleared or its people list is replaced
EditLost(f) ==
    /\ Exists(f)
    /\ files[f].edited
    /\ files'[f] # NoDoc
    /\ ~files'[f].edited \/ files'[f].people # files[f].people

\* C27: once an edit has set isUserEdited on a record, no write of
\* onFileUpload or cleanupStuckProcessing replaces the analysis or clears
\* the flag: a step that loses an edit is not a step of either.
C27_EditSurvivesPipeline ==
    [][(\E f \in FileIds : EditLost(f))
       => /\ ~WatchdogCommit
          /\ ~\E i \in Slots, accepted \in BOOLEAN :
                 OnFileUploadSuccess(i, accepted)
      ]_vars

\* C28: onFileUpload and analyzeMediaCallable call the AI collaborator for a
\* record only after the same invocation has written status processing to
\* it; when the record is gone, so that the write fails, no call is made.
C28_ProcessingBeforeAICall ==
    [][\A i \in Slots :
          inv[i] = Idle /\ inv'[i] # Idle
          => /\ files[inv'[i].file] # NoDoc
             /\ files'[inv'[i].file] # NoDoc
             /\ files'[inv'[i].file].status = "processing"
             /\ files'[inv'[i].file].updatedAt = 0
      ]_vars

\* C28 happens: after the trigger's call, a callable invocation is waiting
\* for the model on a record it has set to processing.
C28_Witness ==
    \E i \in Slots :
       /\ inv[i] # Idle
       /\ inv[i].fn = "analyzeMediaCallable"
       /\ aiCalls[inv[i].file] >= 1
       /\ Exists(inv[i].file)
       /\ files[inv[i].file].status = "processing"

\* The handler went on to the AI call for record f: a slot took the
\* invocation and the record is processing.
Called(f) ==
    /\ \E i \in Slots : inv[i] = Idle /\ inv'[i] # Idle /\ inv'[i].file = f
    /\ files'[f] # NoDoc
    /\ files'[f].status = "processing"

\* C29: a failure of the known-people query is non-fatal in onFileUpload
\* and in analyzeMediaCallable: the query never throws into the handler, a
\* failed query yields the empty context, and the handler still calls the
\* AI collaborator, leaving the record to the call's outcome.
C29_ContextFailureIsNonFatal ==
    /\ [](\A fails \in BOOLEAN : ~FetchContext(fails).thrown)
    /\ [](FetchContext(TRUE).knownPeople = {})
    /\ [][\A e \in events, keep \in BOOLEAN :
            /\ PassesGuard(e) /\ HasDownloadURL(e) /\ Exists(e.file)
            /\ OnFileUploadStartWith(e, keep, TRUE)
            => Called(e.file)]_vars
    /\ [][\A f \in FileIds :
            /\ Exists(f)
            /\ files[f].downloadURL # "null"
            /\ AnalyzeMediaCallableStartWith(f, TRUE)
            => Called(f)]_vars

\* C29 happens: the library has known people, so the query matters, and a
\* redelivered trigger invocation is at the AI call on a processing record.
C29_Witness ==
    \E i \in Slots :
       /\ inv[i] # Idle
       /\ inv[i].fn = "onFileUpload"
       /\ KnownPeople # {}
       /\ Exists(inv[i].file)
       /\ files[inv[i].file].status = "processing"
       /\ files[inv[i].file].analyzedAt

\* C30: onFileUpload is a no-op for every write whose after-snapshot is
\* absent (a deletion) or has a status other than pending: the delivery
\* writes nothing to the datastore and starts no AI call.
C30_NonPendingWriteIsNoOp ==
    [][\A e \in events, keep \in BOOLEAN :
          e.status # "pending" /\ OnFileUploadStart(e, keep)
          => UNCHANGED <<files, qevents, profile, inv, aiCalls>>
      ]_vars

\* C30 happens: the events of the uploading, processing and ready writes of
\* a record have all been delivered, and the one AI call stayed the only one.
C30_Witness ==
    \E f \in PipelineFiles :
       /\ Exists(f)
       /\ files[f].status = "ready"
       /\ events = {}
       /\ aiCalls[f] = 1
       /\ \A i \in Slots : inv[i] = Idle

\* The Upload Coordinator with the progress events of its transfers: uploads
\* of handleUpload, their callbacks, the stall timer, cancel and delete.
StallNext ==
    \/ \E f \in FileIds : InitiateUpload(f, SmallFile, FALSE, FALSE)
    \/ \E f \in FileIds : TransferProgress(f)
    \/ Transfer(FileIds)
    \/ \E f \in FileIds : DeleteItem(f)

StallSpec == Init /\ [][StallNext]_vars

\* C31: every progress event re-arms the stall timer of its record, the
\* transfer's success and failure callbacks disarm it, and when it fires,
\* which happens only while the record is uploading, the transfer is
\* cancelled, the progress entry is removed and the record is marked failed.
C31_StallTimerCancelsAndFails ==
    [][\A f \in FileIds :
          /\ TransferProgress(f) => upload'[f].timer
          /\ TransferSuccess(f) \/ TransferError(f) \/ CanceledCallback(f)
                => ~upload'[f].timer
          /\ StallTimeout(f) /\ Exists(f)
                => /\ files[f].status = "uploading"
                   /\ upload'[f].st = "canceled"
                   /\ ~upload'[f].task
                   /\ ~upload'[f].progress
                   /\ files'[f].status = "failed"
      ]_vars

\* C32: cleanupStuckProcessing force-fails only records that are still
\* pending or processing when its batch is applied: a record that reached
\* another status after the sweep's query is left as it is.
C32_SweepSparesFinishedRecords ==
    [][WatchdogCommit =>
          \A f \in FileIds :
             Exists(f) /\ files[f].status \notin {"pending", "processing"}
                => files'[f] = files[f]
      ]_vars

\* The cascade of one client write: a record right after finalizeUpload (or
\* a foreign write of a pending record without a downloadURL), with the
\* write's event at both triggers, and nothing but the server from then on:
\* the two triggers, the AI call's outcomes, the sweep and time.  Every
\* event is delivered once.
CascadeInit ==
    \E d \in TriggerDocs :
       /\ files = [f \in FileIds |-> IF f = 1 THEN d ELSE NoDoc]
       /\ events = {Snapshot(1, d)}
       /\ qevents = {QuotaEvent(1, Placeholder(SmallFile), d)}
       /\ profile = [NewProfile EXCEPT !.usedBytes = SmallFile]
       /\ redelivered = 0
       /\ inv = [i \in Slots |-> Idle]
       /\ sweep = NoSweep
       /\ upload = [f \in FileIds |-> NoUpload]
       /\ ensure = [s \in Sessions |-> "idle"]
       /\ userProfile = NewProfile
       /\ aiCalls = [f \in FileIds |-> 0]
       /\ reply = [f \in FileIds |-> "none"]

CascadeNext ==
    \/ \E e \in events : OnFileUploadStart(e, FALSE)
    \/ \E e \in qevents : ManageQuota(e)
    \/ Analysis
    \/ Watchdog
    \/ Tick

\* The platform delivers every event, the schedule keeps running and time
\* passes; the AI call is under no obligation to return (the platform ends
\* the invocation at its timeout).
CascadeSpec ==
    /\ CascadeInit
    /\ [][CascadeNext]_vars
    /\ WF_vars(Tick)
    /\ WF_vars(WatchdogQuery)
    /\ WF_vars(WatchdogCommit)
    /\ WF_vars(\E e \in events : OnFileUploadStart(e, FALSE))
    /\ WF_vars(\E e \in qevents : ManageQuota(e))

\* No event is waiting for a trigger, no invocation and no sweep is running
Quiescent ==
    /\ events = {}
    /\ qevents = {}
    /\ \A i \in Slots : inv[i] = Idle
    /\ ~sweep.active

\* C33: the events of the processing, ready and failed writes of
\* onFileUpload and of the sweep's failed write reach onFileUpload and
\* manageQuota, which write nothing for them, so the cascade that one client
\* write starts comes to an end.
C33_CascadeTerminates ==
    /\ [][\A e \in events :
            /\ e.status \in {"processing", "ready", "failed"}
            /\ OnFileUploadStart(e, FALSE)
            => UNCHANGED <<files, profile, qevents, inv, aiCalls>>]_vars
    /\ [][\A e \in qevents :
            ManageQuota(e) => UNCHANGED <<files, profile, events, inv>>]_vars
    /\ <>[]Quiescent

\* C33 happens: the record is ready after its one AI call, every event of
\* the handler's writes has been delivered and usedBytes is what it was.
C33_Witness ==
    /\ Quiescent
    /\ files[1] # NoDoc
    /\ files[1].status = "ready"
    /\ aiCalls[1] = 1
    /\ profile.usedBytes = SmallFile

\* The stall timer of f has fired: the task is cancelled and dropped from
\* activeUploads, and its error callback has not run yet
TimedOut(f) == upload[f].st = "canceled" /\ ~upload[f].task

\* C34: when the stall timer has fired for a record, the record holds the
\* stall-timeout message, and the storage/canceled error callback that the
\* timer's cancel provokes does not write the record again.
C34_StallMessageSurvives ==
    [][\A f \in FileIds :
          TimedOut(f) /\ Exists(f) /\ CanceledCallback(f)
          => /\ files[f].error = ErrorString("stalled")
             /\ files'[f] = files[f]
      ]_vars

\* C35: ensureUserProfile never resets a profile that exists: whatever runs
\* beside it (another sign-in, uploads, manageQuota, the administrator), its
\* write leaves usedBytes and quotaBytes of an existing profile as they are.
C35_SignInKeepsExistingProfile ==
    [][\A s \in Sessions :
          profile.exists /\ EnsureUserProfileCreate(s)
          => /\ profile'.usedBytes = profile.usedBytes
             /\ profile'.quotaBytes = profile.quotaBytes
      ]_vars

\* No initiate is between its quota check and its placeholder, and
\* manageQuota has applied every write made so far
Settled ==
    /\ qevents = {}
    /\ \A g \in FileIds : upload[g].st # "checked"

\* Uploads of one owner initiated strictly one after another, under a quota
\* nobody changes: each initiate starts in a settled state.  Records may be
\* deleted, and the platform may deliver an event to manageQuota again.
SequentialNext ==
    \/ \E f \in FileIds, size \in FileSizes :
          Settled /\ InitiateUpload(f, size, FALSE, FALSE)
    \/ \E f \in FileIds : CreatePlaceholder(f)
    \/ \E f \in FileIds : DeleteItem(f)
    \/ ProfileSnapshot
    \/ \E e \in events : OnFileUploadStart(e, FALSE)
    \/ \E e \in qevents, keep \in BOOLEAN : ManageQuotaWith(e, keep)

SequentialSpec == Init /\ [][SequentialNext]_vars

\* C36: with a fixed quotaBytes and uploads initiated strictly one after
\* another, usedBytes never exceeds quotaBytes.
C36_SequentialUploadsStayWithinQuota ==
    profile.exists => profile.usedBytes <= profile.quotaBytes

\* ------------------------------------------ analyzeMediaCallable: callers
\* The uid under which record f is stored (users/{uid}/files/{f}): here the
\* library holds records of two users; the administrator owns none.
OwnerOf(f) == IF f % 2 = 1 THEN "u1" ELSE "u2"

\* request.auth: absent, or the uid of the caller
NoAuth == "unauthenticated"
Callers == {"u1", "u2", "admin", NoAuth}

\* request.data.fileId: absent, or the id the caller names
NoFileId == 0
NoFile == 0

\* A lookup of the record by its id alone, whoever owns it
ResolveById(uid, fileId) == fileId

\* db.collection('users').doc(uid).collection('files').doc(fileId): the
\* record with that id under the caller's uid, if there is one
Resolve(uid, fileId) == IF OwnerOf(fileId) = uid THEN fileId ELSE NoFile

\* One call of analyzeMediaCallable with request.auth and request.data as
\* given: unauthenticated and invalid-argument are thrown before any read,
\* not-found when the caller's library has no document of that id; else the
\* handler goes on with the caller's record.
AnalyzeMediaCallableRequest(auth, fileId) ==
    IF auth = NoAuth \/ fileId = NoFileId
    THEN /\ fileId # NoFileId
         /\ reply' = [reply EXCEPT ![fileId] = "error"]
         /\ UNCHANGED <<files, profile, events, qevents, redelivered, inv,
                        sweep, upload, ensure, userProfile, aiCalls>>
    ELSE IF Resolve(auth, fileId) = NoFile
    THEN /\ reply' = [reply EXCEPT ![fileId] = "error"]
         /\ UNCHANGED <<files, profile, events, qevents, redelivered, inv,
                        sweep, upload, ensure, userProfile, aiCalls>>
    ELSE AnalyzeMediaCallableStart(Resolve(auth, fileId))

\* Records of two users that have been through the pipeline (ready, or
\* failed by the sweep), and calls to analyzeMediaCallable by either user,
\* the administrator and unauthenticated clients, naming any record's id.
\* Calls are made one at a time, and the trigger has seen every write before
\* the next call or result arrives.
CallableDocs ==
    {Ready(Finalized(Placeholder(SmallFile))),
     Failed(Processing(Finalized(Placeholder(SmallFile))), "timeout",
            <<"AI pipeline timeout. Please click Reanalyze.">>)}

CallableInit ==
    /\ files \in [FileIds -> CallableDocs]
    /\ profile = NewProfile
    /\ events = {}
    /\ qevents = {}
    /\ redelivered = 0
    /\ inv = [i \in Slots |-> Idle]
    /\ sweep = NoSweep
    /\ upload = [f \in FileIds |-> NoUpload]
    /\ ensure = [s \in Sessions |-> "idle"]
    /\ userProfile = NewProfile
    /\ aiCalls = [f \in FileIds |-> 0]
    /\ reply = [f \in FileIds |-> "none"]

CallableNext ==
    \/ \E auth \in Callers, fileId \in FileIds :
          /\ events = {}
          /\ \A i \in Slots : inv[i] = Idle
          /\ AnalyzeMediaCallableRequest(auth, fileId)
    \/ \E i \in Slots :
          events = {} /\ AnalyzeMediaCallableSuccess(i, TRUE)
    \/ \E i \in Slots :
          events = {} /\ AnalyzeMediaCallableFailure(i, "rate limited", TRUE)
    \/ \E e \in events : OnFileUploadStart(e, FALSE)

CallableSpec == CallableInit /\ [][CallableNext]_vars

AnalysisInFlight(f) == \E i \in Slots : inv[i] # Idle /\ inv[i].file = f

\* Deletion during analysis: one finalized record, counted in usedBytes,
\* with the trigger, re-analysis on demand, the owner's delete while an
\* analysis is in flight, and the quota trigger, whose events the platform
\* may deliver again.
DeletionNext ==
    \/ \E e \in events : OnFileUploadStart(e, FALSE)
    \/ Analysis
    \/ Reanalysis(PipelineFiles)
    \/ \E f \in PipelineFiles : AnalysisInFlight(f) /\ DeleteItem(f)
    \/ \E e \in qevents, keep \in BOOLEAN : ManageQuotaWith(e, keep)

DeletionSpec == CascadeInit /\ [][DeletionNext]_vars

\* C38: a record that was deleted while its analysis was in flight is never
\* brought back by a late write of onFileUpload or analyzeMediaCallable, and
\* usedBytes goes down by the record's size exactly once.
C38_DeletionIsFinal ==
    /\ [][\A f \in FileIds : files[f] = NoDoc => files'[f] = NoDoc]_vars
    /\ [](profile.usedBytes \in {0, SmallFile})
    /\ []((files[1] = NoDoc /\ qevents = {}) => profile.usedBytes = 0)
====
